---- MODULE Spec2Model ----
(***************************************************************************)
(* Matcher combinators of src/catch2/catch_matchers.h: MatchAllOf,         *)
(* MatchAnyOf, MatchNotOf and the operators &&, || and ! that build them.  *)
(*                                                                         *)
(* Matcher objects live in numbered slots.  Slots 1 and 2 hold the leaf    *)
(* matchers Eq(1) and Eq(2); the remaining slots are filled, in order, by  *)
(* the combinators the operators return.  A combinator refers to its       *)
(* operands by slot number (the code stores pointers and a reference).     *)
(* Every object stays alive for the whole behaviour, so no reference ever  *)
(* dangles; an operand used as an rvalue is either a temporary or a named  *)
(* object passed through std::move.                                        *)
(***************************************************************************)
EXTENDS Integers, Sequences, FiniteSets, TLC

\* Number of object slots (leaves included).
MaxObj == 4

Leaves == {1, 2}
\* The leaf whose describe() reads a mutable counter.
CountingLeaf == CHOOSE l \in Leaves : \A k \in Leaves : k <= l
Objs == 1..MaxObj
\* The values handed to match().
Values == Leaves
Cats == {"lvalue", "rvalue"}
Digit == <<"1", "2", "3", "4", "5", "6", "7", "8", "9">>

VARIABLES
    kind,                 \* slot -> "leaf", "all", "any", "not" or "free"
    m_matchers,           \* slot -> the group's member slots, in order
    m_underlyingMatcher,  \* slot -> the slot a MatchNotOf wraps (0: none)
    m_cachedToString,     \* slot -> cached description ("" : not computed)
    describeCount,        \* how often the counting leaf's describe() ran
    last                  \* the last operation and what it returned

vars == <<kind, m_matchers, m_underlyingMatcher, m_cachedToString,
          describeCount, last>>

----
\* Leaf matchers (the MatcherBase interface a leaf implements)

\* Eq(n).match(arg)
LeafMatch(m, arg) == arg = m

\* Eq(n).describe(); the counting leaf's text changes once its describe()
\* has run n > 0 times
LeafDescribe(m, n) ==
    IF m = CountingLeaf /\ n > 0
    THEN "equals " \o Digit[m] \o " #" \o Digit[n]
    ELSE "equals " \o Digit[m]

----
\* match()

RECURSIVE match(_, _)
RECURSIVE MatchAllOf_loop(_, _, _)
RECURSIVE MatchAnyOf_loop(_, _, _)
RECURSIVE MatchAllOf_loopInverted(_, _, _)
RECURSIVE MatchAllOf_loopNoReturn(_, _, _)
RECURSIVE MatchAnyOf_loopDefaultTrue(_, _, _)

Call(by, callee) == [by |-> by, callee |-> callee]

\* the for loop of MatchAllOf::match from member i on
MatchAllOf_loop(m, arg, i) ==
    IF i > Len(m_matchers[m])
    THEN [res |-> TRUE, trace |-> << >>]
    ELSE LET c == m_matchers[m][i]
             r == match(c, arg)
             here == <<Call(m, c)>> \o r.trace
         IN  IF ~r.res
             THEN [res |-> FALSE, trace |-> here]
             ELSE LET rest == MatchAllOf_loop(m, arg, i + 1)
                  IN  [res |-> rest.res, trace |-> here \o rest.trace]

\* Mutant: the loop tests  matcher->match(arg)  without the negation.
MatchAllOf_loopInverted(m, arg, i) ==
    IF i > Len(m_matchers[m])
    THEN [res |-> TRUE, trace |-> << >>]
    ELSE LET c == m_matchers[m][i]
             r == match(c, arg)
             here == <<Call(m, c)>> \o r.trace
         IN  IF r.res
             THEN [res |-> FALSE, trace |-> here]
             ELSE LET rest == MatchAllOf_loopInverted(m, arg, i + 1)
                  IN  [res |-> rest.res, trace |-> here \o rest.trace]

MatchAllOf_matchInverted(m, arg) == MatchAllOf_loopInverted(m, arg, 1)

\* Mutant: the loop accumulates the answer and never returns early.
MatchAllOf_loopNoReturn(m, arg, i) ==
    IF i > Len(m_matchers[m])
    THEN [res |-> TRUE, trace |-> << >>]
    ELSE LET c == m_matchers[m][i]
             r == match(c, arg)
             rest == MatchAllOf_loopNoReturn(m, arg, i + 1)
         IN  [res |-> r.res /\ rest.res,
              trace |-> <<Call(m, c)>> \o r.trace \o rest.trace]

MatchAllOf_matchNoReturn(m, arg) == MatchAllOf_loopNoReturn(m, arg, 1)

MatchAllOf_match(m, arg) == MatchAllOf_loop(m, arg, 1)

\* the for loop of MatchAnyOf::match from member i on
MatchAnyOf_loop(m, arg, i) ==
    IF i > Len(m_matchers[m])
    THEN [res |-> FALSE, trace |-> << >>]
    ELSE LET c == m_matchers[m][i]
             r == match(c, arg)
             here == <<Call(m, c)>> \o r.trace
         IN  IF r.res
             THEN [res |-> TRUE, trace |-> here]
             ELSE LET rest == MatchAnyOf_loop(m, arg, i + 1)
                  IN  [res |-> rest.res, trace |-> here \o rest.trace]

\* Mutant: the function ends with  return true  as MatchAllOf::match does.
MatchAnyOf_loopDefaultTrue(m, arg, i) ==
    IF i > Len(m_matchers[m])
    THEN [res |-> TRUE, trace |-> << >>]
    ELSE LET c == m_matchers[m][i]
             r == match(c, arg)
             here == <<Call(m, c)>> \o r.trace
         IN  IF r.res
             THEN [res |-> TRUE, trace |-> here]
             ELSE LET rest == MatchAnyOf_loopDefaultTrue(m, arg, i + 1)
                  IN  [res |-> rest.res, trace |-> here \o rest.trace]

MatchAnyOf_matchDefaultTrue(m, arg) == MatchAnyOf_loopDefaultTrue(m, arg, 1)

MatchAnyOf_match(m, arg) == MatchAnyOf_loop(m, arg, 1)

\* Mutant: the negation is missing.
MatchNotOf_matchNoNegation(m, arg) ==
    LET r == match(m_underlyingMatcher[m], arg)
    IN  [res |-> r.res,
         trace |-> <<Call(m, m_underlyingMatcher[m])>> \o r.trace]

MatchNotOf_match(m, arg) ==
    LET r == match(m_underlyingMatcher[m], arg)
    IN  [res |-> ~r.res,
         trace |-> <<Call(m, m_underlyingMatcher[m])>> \o r.trace]

\* virtual dispatch of match(); the result and the calls made, in order
match(m, arg) ==
    CASE kind[m] = "leaf" -> [res |-> LeafMatch(m, arg), trace |-> << >>]
      [] kind[m] = "all"  -> MatchAllOf_match(m, arg)
      [] kind[m] = "any"  -> MatchAnyOf_match(m, arg)
      [] kind[m] = "not"  -> MatchNotOf_match(m, arg)

----
\* describe() and toString()
\* A description run threads d = [cache, count, trace]: the cached strings,
\* the counting leaf's counter, and the objects whose describe() ran.

RECURSIVE describe(_, _)
RECURSIVE toString(_, _)
RECURSIVE MatchAllOf_describeLoop(_, _, _, _, _)
RECURSIVE MatchAnyOf_describeLoop(_, _, _, _, _)
RECURSIVE MatchAllOf_describeLoopFresh(_, _, _, _, _)

\* MatcherUntypedBase::toString(): describe() on the first call, the stored
\* string afterwards
toString(m, d) ==
    IF d.cache[m] # ""
    THEN [str |-> d.cache[m], d |-> d]
    ELSE LET r == describe(m, d)
         IN  [str |-> r.str, d |-> [r.d EXCEPT !.cache[m] = r.str]]

\* the for loop of MatchAllOf::describe from member i on
MatchAllOf_describeLoop(m, d, i, first, description) ==
    IF i > Len(m_matchers[m])
    THEN [str |-> description, d |-> d]
    ELSE LET sep == IF first THEN description ELSE description \o " and "
             r == toString(m_matchers[m][i], d)
         IN  MatchAllOf_describeLoop(m, r.d, i + 1, FALSE, sep \o r.str)

\* Mutant: first starts out false.
MatchAllOf_describeFirstFalse(m, d) ==
    LET r == MatchAllOf_describeLoop(m, d, 1, FALSE, "( ")
    IN  [str |-> r.str \o " )", d |-> r.d]

\* Mutant: the loop appends matcher->describe() instead of
\* matcher->toString().
MatchAllOf_describeLoopFresh(m, d, i, first, description) ==
    IF i > Len(m_matchers[m])
    THEN [str |-> description, d |-> d]
    ELSE LET sep == IF first THEN description ELSE description \o " and "
             r == describe(m_matchers[m][i], d)
         IN  MatchAllOf_describeLoopFresh(m, r.d, i + 1, FALSE, sep \o r.str)

MatchAllOf_describeFresh(m, d) ==
    LET r == MatchAllOf_describeLoopFresh(m, d, 1, TRUE, "( ")
    IN  [str |-> r.str \o " )", d |-> r.d]

MatchAllOf_describe(m, d) ==
    LET r == MatchAllOf_describeLoop(m, d, 1, TRUE, "( ")
    IN  [str |-> r.str \o " )", d |-> r.d]

\* the for loop of MatchAnyOf::describe from member i on
MatchAnyOf_describeLoop(m, d, i, first, description) ==
    IF i > Len(m_matchers[m])
    THEN [str |-> description, d |-> d]
    ELSE LET sep == IF first THEN description ELSE description \o " or "
             r == toString(m_matchers[m][i], d)
         IN  MatchAnyOf_describeLoop(m, r.d, i + 1, FALSE, sep \o r.str)

MatchAnyOf_describe(m, d) ==
    LET r == MatchAnyOf_describeLoop(m, d, 1, TRUE, "( ")
    IN  [str |-> r.str \o " )", d |-> r.d]

\* Mutant: the wrapper appends m_underlyingMatcher.describe().
MatchNotOf_describeFresh(m, d) ==
    LET r == describe(m_underlyingMatcher[m], d)
    IN  [str |-> "not " \o r.str, d |-> r.d]

MatchNotOf_describe(m, d) ==
    LET r == toString(m_underlyingMatcher[m], d)
    IN  [str |-> "not " \o r.str, d |-> r.d]

\* the leaf's describe(); the counting leaf bumps its counter
Leaf_describe(m, d) ==
    [str |-> LeafDescribe(m, d.count),
     d |-> IF m = CountingLeaf THEN [d EXCEPT !.count = @ + 1] ELSE d]

\* virtual dispatch of describe(); every run is recorded in d.trace
describe(m, d) ==
    LET e == [d EXCEPT !.trace = Append(@, m)]
    IN  CASE kind[m] = "leaf" -> Leaf_describe(m, e)
          [] kind[m] = "all"  -> MatchAllOf_describe(m, e)
          [] kind[m] = "any"  -> MatchAnyOf_describe(m, e)
          [] kind[m] = "not"  -> MatchNotOf_describe(m, e)

\* the description state a call starts from
Now == [cache |-> m_cachedToString, count |-> describeCount, trace |-> << >>]

----
\* The overloads of && and ||, and which one a call selects

\* parameter types: "GroupRRef" is MatchAllOf&& (MatchAnyOf&&), "GroupCRef" is
\* MatchAllOf<ArgT> const& (MatchAnyOf<ArgT> const&), "BaseCRef" is
\* MatcherBase<ArgT> const&
Overload(name, grp, p1, p2, template, deleted) ==
    [name |-> name, grp |-> grp, p1 |-> p1, p2 |-> p2,
     template |-> template, deleted |-> deleted]

\* Mutant: the two deleted lvalue overloads of operator&& are not declared.
AndOverloads_withoutDeleted ==
    { Overload("append", "all", "GroupRRef", "BaseCRef", FALSE, FALSE),
      Overload("prepend", "all", "BaseCRef", "GroupRRef", FALSE, FALSE),
      Overload("generic", "all", "BaseCRef", "BaseCRef", TRUE, FALSE) }

\* every operator&& the header declares
AndOverloads ==
    { Overload("append", "all", "GroupRRef", "BaseCRef", FALSE, FALSE),
      Overload("prepend", "all", "BaseCRef", "GroupRRef", FALSE, FALSE),
      Overload("deleted_lhs", "all", "GroupCRef", "BaseCRef", TRUE, TRUE),
      Overload("deleted_rhs", "all", "BaseCRef", "GroupCRef", TRUE, TRUE),
      Overload("generic", "all", "BaseCRef", "BaseCRef", TRUE, FALSE) }

\* every operator|| the header declares
OrOverloads ==
    { Overload("append", "any", "GroupRRef", "BaseCRef", FALSE, FALSE),
      Overload("prepend", "any", "BaseCRef", "GroupRRef", FALSE, FALSE),
      Overload("deleted_lhs", "any", "GroupCRef", "BaseCRef", TRUE, TRUE),
      Overload("deleted_rhs", "any", "BaseCRef", "GroupCRef", TRUE, TRUE),
      Overload("generic", "any", "BaseCRef", "BaseCRef", TRUE, FALSE) }

\* an argument expression: its static type and value category
Arg(m, cat) == [type |-> kind[m], cat |-> cat]

\* can parameter p of a grp overload bind to argument a
Binds(p, grp, a) ==
    CASE p = "GroupRRef" -> a.type = grp /\ a.cat = "rvalue"
      [] p = "GroupCRef" -> a.type = grp
      [] p = "BaseCRef"  -> TRUE

\* rank of the binding, lower is better: an rvalue reference to the group
\* type, a const reference to the group type, a derived-to-base conversion
Rank(p) ==
    CASE p = "GroupRRef" -> 0
      [] p = "GroupCRef" -> 1
      [] p = "BaseCRef"  -> 2

Viable(c, a1, a2) == Binds(c.p1, c.grp, a1) /\ Binds(c.p2, c.grp, a2)

\* c is a better candidate than d
Better(c, d) ==
    /\ Rank(c.p1) <= Rank(d.p1)
    /\ Rank(c.p2) <= Rank(d.p2)
    /\ \/ Rank(c.p1) < Rank(d.p1)
       \/ Rank(c.p2) < Rank(d.p2)
       \/ ~c.template /\ d.template

\* the overload a call with arguments a1, a2 selects: its name, or
\* "ambiguous" when no viable candidate beats all others
Resolve(overloads, a1, a2) ==
    LET viable == {c \in overloads : Viable(c, a1, a2)}
        best == {c \in viable : \A d \in viable \ {c} : Better(c, d)}
    IN  IF best = {} THEN "ambiguous" ELSE (CHOOSE c \in best : TRUE).name

Types == {"leaf", "all", "any", "not"}
Args == [type : Types, cat : Cats]
\* what l && r selects, for every pair of argument expressions
ResolveAnd == [a1 \in Args, a2 \in Args |-> Resolve(AndOverloads, a1, a2)]
\* what l || r selects, for every pair of argument expressions
ResolveOr == [a1 \in Args, a2 \in Args |-> Resolve(OrOverloads, a1, a2)]

Rejected == {"deleted_lhs", "deleted_rhs", "ambiguous"}

----
\* The operators, on group values g = [m_matchers, m_cachedToString]

\* MatchAllOf{} / MatchAnyOf{}
EmptyGroup == [m_matchers |-> << >>, m_cachedToString |-> ""]

\* The defaulted move constructor: the vector is moved, which leaves the
\* source's vector empty; MatcherUntypedBase declares a copy constructor
\* only, so the cached string is copied.
MoveConstruct(g) ==
    [result |-> [m_matchers |-> g.m_matchers,
                 m_cachedToString |-> g.m_cachedToString],
     source |-> [m_matchers |-> << >>,
                 m_cachedToString |-> g.m_cachedToString]]

\* operator&& (MatchAllOf&& lhs, MatcherBase<ArgT> const& rhs)
MatchAllOf_append(lhs, rhs) ==
    MoveConstruct([lhs EXCEPT !.m_matchers = Append(@, rhs)])

\* Mutant: the new member is added with push_back.
MatchAllOf_prependAtEnd(lhs, rhs) ==
    MoveConstruct([rhs EXCEPT !.m_matchers = Append(@, lhs)])

\* operator&& (MatcherBase<ArgT> const& lhs, MatchAllOf&& rhs)
MatchAllOf_prepend(lhs, rhs) ==
    MoveConstruct([rhs EXCEPT !.m_matchers = <<lhs>> \o @])

\* operator|| (MatchAnyOf&& lhs, MatcherBase<ArgT> const& rhs)
MatchAnyOf_append(lhs, rhs) ==
    MoveConstruct([lhs EXCEPT !.m_matchers = Append(@, rhs)])

\* operator|| (MatcherBase<ArgT> const& lhs, MatchAnyOf&& rhs)
MatchAnyOf_prepend(lhs, rhs) ==
    MoveConstruct([rhs EXCEPT !.m_matchers = <<lhs>> \o @])

\* operator&& (MatcherBase<T> const& lhs, MatcherBase<T> const& rhs)
operatorAnd(lhs, rhs) ==
    MatchAllOf_append(MatchAllOf_append(EmptyGroup, lhs).result, rhs).result

\* operator|| (MatcherBase<T> const& lhs, MatcherBase<T> const& rhs)
operatorOr(lhs, rhs) ==
    MatchAnyOf_append(MatchAnyOf_append(EmptyGroup, lhs).result, rhs).result

----
\* The state machine: test code builds matchers and calls them

Allocated(m) == kind[m] # "free"
\* slots are filled in order, so room is left exactly when the last is free
HasFree == ~Allocated(MaxObj)
\* the slot the next returned combinator is stored in
NextFree == CHOOSE n \in Objs : ~Allocated(n) /\ \A k \in Objs : k < n => Allocated(k)

GroupOf(m) == [m_matchers |-> m_matchers[m], m_cachedToString |-> m_cachedToString[m]]

Blank ==
    [op |-> "init", target |-> 0, lhs |-> 0, rhs |-> 0, lcat |-> "", rcat |-> "",
     overload |-> "", arg |-> 0, retBool |-> FALSE, retStr |-> "",
     matchTrace |-> << >>, describeTrace |-> << >>]

Init ==
    /\ kind = [m \in Objs |-> IF m \in Leaves THEN "leaf" ELSE "free"]
    /\ m_matchers = [m \in Objs |-> << >>]
    /\ m_underlyingMatcher = [m \in Objs |-> 0]
    /\ m_cachedToString = [m \in Objs |-> ""]
    /\ describeCount = 0
    /\ last = Blank

\* every expression written so far was accepted: there is a program to run
WellFormed == last.overload \notin Rejected

\* the call is ill-formed: nothing is built and nothing changes
Reject(rec) ==
    /\ last' = rec
    /\ UNCHANGED <<kind, m_matchers, m_underlyingMatcher, m_cachedToString, describeCount>>

\* the friend overload consumed the group in slot src: mv.source is what it
\* leaves there, mv.result the group it returns
Extend(grp, src, mv, rec) ==
    /\ HasFree
    /\ kind' = [kind EXCEPT ![NextFree] = grp]
    /\ m_matchers' = [m_matchers EXCEPT ![src] = mv.source.m_matchers,
                                        ![NextFree] = mv.result.m_matchers]
    /\ m_cachedToString' =
           [m_cachedToString EXCEPT ![src] = mv.source.m_cachedToString,
                                    ![NextFree] = mv.result.m_cachedToString]
    /\ last' = [rec EXCEPT !.target = NextFree]
    /\ UNCHANGED <<m_underlyingMatcher, describeCount>>

\* the generic overload returned the new group g
Create(grp, g, rec) ==
    /\ HasFree
    /\ kind' = [kind EXCEPT ![NextFree] = grp]
    /\ m_matchers' = [m_matchers EXCEPT ![NextFree] = g.m_matchers]
    /\ m_cachedToString' = [m_cachedToString EXCEPT ![NextFree] = g.m_cachedToString]
    /\ last' = [rec EXCEPT !.target = NextFree]
    /\ UNCHANGED <<m_underlyingMatcher, describeCount>>

\* the expression  l && r  with operands of value category lc, rc
OpAnd(l, lc, r, rc) ==
    /\ WellFormed
    /\ Allocated(l) /\ Allocated(r)
    /\ LET ov == ResolveAnd[Arg(l, lc), Arg(r, rc)]
           rec == [Blank EXCEPT !.op = "and", !.lhs = l, !.rhs = r,
                                !.lcat = lc, !.rcat = rc, !.overload = ov]
       IN  CASE ov = "append"  -> Extend("all", l, MatchAllOf_append(GroupOf(l), r), rec)
             [] ov = "prepend" -> Extend("all", r, MatchAllOf_prepend(l, GroupOf(r)), rec)
             [] ov = "generic" -> Create("all", operatorAnd(l, r), rec)
             [] OTHER          -> Reject(rec)

\* the expression  l || r  with operands of value category lc, rc
OpOr(l, lc, r, rc) ==
    /\ WellFormed
    /\ Allocated(l) /\ Allocated(r)
    /\ LET ov == ResolveOr[Arg(l, lc), Arg(r, rc)]
           rec == [Blank EXCEPT !.op = "or", !.lhs = l, !.rhs = r,
                                !.lcat = lc, !.rcat = rc, !.overload = ov]
       IN  CASE ov = "append"  -> Extend("any", l, MatchAnyOf_append(GroupOf(l), r), rec)
             [] ov = "prepend" -> Extend("any", r, MatchAnyOf_prepend(l, GroupOf(r)), rec)
             [] ov = "generic" -> Create("any", operatorOr(l, r), rec)
             [] OTHER          -> Reject(rec)

\* operator! : MatchNotOf<T>{ matcher }
operatorNot(matcher) ==
    /\ WellFormed
    /\ HasFree
    /\ Allocated(matcher)
    /\ kind' = [kind EXCEPT ![NextFree] = "not"]
    /\ m_underlyingMatcher' = [m_underlyingMatcher EXCEPT ![NextFree] = matcher]
    /\ last' = [Blank EXCEPT !.op = "not", !.target = NextFree, !.lhs = matcher]
    /\ UNCHANGED <<m_matchers, m_cachedToString, describeCount>>

\* m.match(arg)
CallMatch(m, arg) ==
    /\ WellFormed
    /\ Allocated(m)
    /\ LET r == match(m, arg)
       IN  last' = [Blank EXCEPT !.op = "match", !.target = m, !.arg = arg,
                                 !.retBool = r.res, !.matchTrace = r.trace]
    /\ UNCHANGED <<kind, m_matchers, m_underlyingMatcher, m_cachedToString, describeCount>>

\* m.toString()
CallToString(m) ==
    /\ WellFormed
    /\ Allocated(m)
    /\ LET r == toString(m, Now)
       IN  /\ m_cachedToString' = r.d.cache
           /\ describeCount' = r.d.count
           /\ last' = [Blank EXCEPT !.op = "toString", !.target = m,
                                    !.retStr = r.str, !.describeTrace = r.d.trace]
    /\ UNCHANGED <<kind, m_matchers, m_underlyingMatcher>>

\* m.describe(), which the combinators make public
CallDescribe(m) ==
    /\ WellFormed
    /\ Allocated(m)
    /\ kind[m] # "leaf"
    /\ LET r == describe(m, Now)
       IN  /\ m_cachedToString' = r.d.cache
           /\ describeCount' = r.d.count
           /\ last' = [Blank EXCEPT !.op = "describe", !.target = m,
                                    !.retStr = r.str, !.describeTrace = r.d.trace]
    /\ UNCHANGED <<kind, m_matchers, m_underlyingMatcher>>

\* The value categories an operand is tried with.  Anything but a group
\* binds to MatcherBase<ArgT> const& alike as an lvalue and as an rvalue.
CatsOf(m) == IF kind[m] \in {"all", "any"} THEN Cats ELSE {"lvalue"}

\* building expressions, accepted or not
Build ==
    \/ \E l, r \in Objs : \E lc \in CatsOf(l), rc \in CatsOf(r) : OpAnd(l, lc, r, rc)
    \/ \E l, r \in Objs : \E lc \in CatsOf(l), rc \in CatsOf(r) : OpOr(l, lc, r, rc)
    \/ \E m \in Objs : operatorNot(m)

\* the expression being written is accepted
Compiles == last'.overload \notin Rejected

\* l && r in a translation unit that compiles
AcceptedAnd(l, lc, r, rc) == HasFree /\ OpAnd(l, lc, r, rc) /\ Compiles

\* l || r in a translation unit that compiles
AcceptedOr(l, lc, r, rc) == HasFree /\ OpOr(l, lc, r, rc) /\ Compiles

\* building expressions the compiler accepts
BuildAccepted ==
    \/ \E l, r \in Objs : \E lc \in CatsOf(l), rc \in CatsOf(r) : AcceptedAnd(l, lc, r, rc)
    \/ \E l, r \in Objs : \E lc \in CatsOf(l), rc \in CatsOf(r) : AcceptedOr(l, lc, r, rc)
    \/ \E m \in Objs : operatorNot(m)

Evaluate == \E m \in Objs, arg \in Values : CallMatch(m, arg)

Render ==
    \/ \E m \in Objs : CallToString(m)
    \/ \E m \in Objs : CallDescribe(m)

Next == Build \/ Evaluate \/ Render

Spec == Init /\ [][Next]_vars

\* expressions as written, accepted or not
NextBuild == Build

SpecBuild == Init /\ [][NextBuild]_vars

\* well-formed expressions, evaluated by match()
NextMatch == BuildAccepted \/ Evaluate

SpecMatch == Init /\ [][NextMatch]_vars

\* well-formed expressions, rendered by toString() and describe()
NextDescribe == BuildAccepted \/ Render

SpecDescribe == Init /\ [][NextDescribe]_vars

----
\* Properties

Groups == {"all", "any"}
IsMatchOn(k) == last.op = "match" /\ kind[last.target] = k
Members(m) == m_matchers[m]
\* what member i of group g answers for arg
MemberAccepts(g, i, arg) == match(Members(g)[i], arg).res

\* C1: an AllOf group's match(v) is true exactly when every member's match(v)
\* is true, whatever the members are and however the group was built.
C1_AllOfMatchesIffEveryMember ==
    IsMatchOn("all") =>
        (last.retBool <=>
            \A i \in 1..Len(Members(last.target)) :
                MemberAccepts(last.target, i, last.arg))

\* an AllOf group holding a combinator and a leaf accepted a value
C1_Witness ==
    /\ IsMatchOn("all")
    /\ Len(Members(last.target)) >= 2
    /\ \E i \in 1..Len(Members(last.target)) : kind[Members(last.target)[i]] # "leaf"
    /\ last.retBool

\* C2: an AnyOf group's match(v) is true exactly when at least one member's
\* match(v) is true, whatever the members are and however the group was built.
C2_AnyOfMatchesIffSomeMember ==
    IsMatchOn("any") =>
        (last.retBool <=>
            \E i \in 1..Len(Members(last.target)) :
                MemberAccepts(last.target, i, last.arg))

\* an AnyOf group holding a combinator and a leaf rejected a value
C2_Witness ==
    /\ IsMatchOn("any")
    /\ Len(Members(last.target)) >= 2
    /\ \E i \in 1..Len(Members(last.target)) : kind[Members(last.target)[i]] # "leaf"
    /\ ~last.retBool

\* C3: (!M).match(v) is the negation of M.match(v) for every kind of M, the
\* wrapper built by !M refers to M, and it refers to the same M in every
\* later state.
C3_NotOfNegatesItsOneMatcher ==
    [][ /\ \A m \in Objs :
             kind[m] = "not" =>
                 /\ kind'[m] = "not"
                 /\ m_underlyingMatcher'[m] = m_underlyingMatcher[m]
        /\ last'.op = "not" =>
             /\ kind'[last'.target] = "not"
             /\ m_underlyingMatcher'[last'.target] = last'.lhs
        /\ (last'.op = "match" /\ kind[last'.target] = "not") =>
             last'.retBool = ~match(m_underlyingMatcher[last'.target], last'.arg).res
      ]_vars

\* a wrapper around a group accepted a value the group rejects
C3_Witness ==
    /\ IsMatchOn("not")
    /\ kind[m_underlyingMatcher[last.target]] \in Groups
    /\ Len(Members(m_underlyingMatcher[last.target])) >= 2
    /\ last.retBool

\* the members the group itself called, in call order
CalledBy(g) ==
    LET mine == SelectSeq(last.matchTrace, LAMBDA c : c.by = g)
    IN  [i \in 1..Len(mine) |-> mine[i].callee]

\* member i settles the group's answer: it rejects (AllOf) or accepts (AnyOf)
Decides(g, i, arg) ==
    IF kind[g] = "all" THEN ~MemberAccepts(g, i, arg) ELSE MemberAccepts(g, i, arg)

\* C4: a group's match(v) calls its members in insertion order, each position
\* once, up to and including the first member that decides the result, and
\* calls no member after it; with no deciding member it calls them all.
C4_ShortCircuitInInsertionOrder ==
    (last.op = "match" /\ kind[last.target] \in Groups) =>
        LET g == last.target
            n == Len(Members(g))
            called == CalledBy(g)
            deciding == {i \in 1..n : Decides(g, i, last.arg)}
            stop == IF deciding = {} THEN n
                    ELSE CHOOSE i \in deciding : \A j \in deciding : i <= j
        IN  /\ Len(called) = stop
            /\ \A i \in 1..stop : called[i] = Members(g)[i]

\* a three-member group stopped before its last member
C4_Witness ==
    /\ last.op = "match" /\ kind[last.target] \in Groups
    /\ Len(Members(last.target)) = 3
    /\ Len(CalledBy(last.target)) = 2

\* the group type an operator builds
GroupKind(op) == IF op = "and" THEN "all" ELSE "any"
IsBuild(rec) == rec.op \in {"and", "or"}
Accepted(rec) == IsBuild(rec) /\ rec.overload \notin Rejected

\* C5: an accepted && (||) returns one flat AllOf (AnyOf) group: two plain
\* operands give [lhs, rhs]; a temporary group on the left gets the right
\* operand appended after its members; a temporary group on the right gets
\* the left operand inserted before its members; the old members keep their
\* order, and no member of the result is a group of the result's kind.
C5_FlatGroupInWrittenOrder ==
    [][ IsBuild(last') =>
          LET K == GroupKind(last'.op)
              l == last'.lhs
              r == last'.rhs
              t == last'.target
              new == m_matchers'[t]
          IN  /\ (kind[l] # K /\ kind[r] # K) => last'.overload = "generic"
              /\ (kind[l] = K /\ last'.lcat = "rvalue" /\ kind[r] # K)
                     => last'.overload = "append"
              /\ (kind[r] = K /\ last'.rcat = "rvalue" /\ kind[l] # K)
                     => last'.overload = "prepend"
              /\ Accepted(last') =>
                   /\ kind'[t] = K
                   /\ \A i \in 1..Len(new) : kind'[new[i]] # K
                   /\ last'.overload = "generic" => new = <<l, r>>
                   /\ last'.overload = "append" =>
                        /\ Len(new) = Len(m_matchers[l]) + 1
                        /\ \A i \in 1..Len(m_matchers[l]) : new[i] = m_matchers[l][i]
                        /\ new[Len(new)] = r
                   /\ last'.overload = "prepend" =>
                        /\ Len(new) = Len(m_matchers[r]) + 1
                        /\ new[1] = l
                        /\ \A i \in 1..Len(m_matchers[r]) : new[i + 1] = m_matchers[r][i]
      ]_vars

\* a matcher was put in front of a temporary two-member AllOf group
C5_Witness ==
    /\ last.op = "and" /\ last.overload = "prepend"
    /\ Len(Members(last.target)) = 3
    /\ Members(last.target)[1] = last.lhs

\* C9: && (||) between two AllOf (AnyOf) groups, and && (||) with an AllOf
\* (AnyOf) group operand that is an lvalue, select no usable overload: the
\* call is rejected, no object is made and no object changes.
C9_StoredGroupsAreNotComposed ==
    [][ IsBuild(last') =>
          LET K == GroupKind(last'.op)
              l == last'.lhs
              r == last'.rhs
              named == \/ kind[l] = K /\ last'.lcat = "lvalue"
                       \/ kind[r] = K /\ last'.rcat = "lvalue"
              both == kind[l] = K /\ kind[r] = K
          IN  (named \/ both) =>
                  /\ last'.overload \in Rejected
                  /\ last'.target = 0
                  /\ UNCHANGED <<kind, m_matchers, m_underlyingMatcher,
                                 m_cachedToString, describeCount>>
      ]_vars

\* a temporary AllOf group && a named AllOf group was rejected
C9_Witness ==
    /\ last.op = "and" /\ last.overload \in Rejected
    /\ last.lhs # last.rhs
    /\ kind[last.lhs] = "all" /\ last.lcat = "rvalue"
    /\ kind[last.rhs] = "all" /\ last.rcat = "lvalue"
    /\ Len(Members(last.lhs)) = 2 /\ Len(Members(last.rhs)) = 2

RECURSIVE Joined(_, _)
\* the strings, in order, with sep between neighbours
Joined(strs, sep) ==
    IF Len(strs) = 0 THEN ""
    ELSE IF Len(strs) = 1 THEN strs[1]
    ELSE strs[1] \o sep \o Joined(Tail(strs), sep)

IsDescribeOn(k) == last.op = "describe" /\ kind[last.target] = k

\* C6: a group's describe() returns "( ", its members' toString() values in
\* insertion order joined by " and " (AllOf) or " or " (AnyOf), and " )"; a
\* group without members gives "(  )", and the AllOf group of Eq(1), Eq(2),
\* Eq(1) gives the flat "( equals 1 and equals 2 and equals 1 )".
C6_GroupDescriptionJoinsMembers ==
    (last.op = "describe" /\ kind[last.target] \in Groups) =>
        LET g == last.target
            sep == IF kind[g] = "all" THEN " and " ELSE " or "
            strs == [i \in 1..Len(Members(g)) |-> toString(Members(g)[i], Now).str]
        IN  /\ last.retStr = "( " \o Joined(strs, sep) \o " )"
            /\ Members(g) = << >> => last.retStr = "(  )"
            /\ (kind[g] = "all" /\ Members(g) = <<1, 2, 1>>)
                   => last.retStr = "( equals 1 and equals 2 and equals 1 )"

\* describe() of a three-member chain gave the flat text
C6_Witness ==
    /\ IsDescribeOn("all")
    /\ Len(Members(last.target)) = 3
    /\ last.retStr = "( equals 1 and equals 2 and equals 1 )"

\* C7: (!A).describe() returns "not " followed by A.toString(); when A has a
\* stored description that is the string used, and A.describe() does not run.
C7_NotOfDescription ==
    [][ (last'.op = "describe" /\ kind[last'.target] = "not") =>
          LET u == m_underlyingMatcher[last'.target]
          IN  /\ last'.retStr = "not " \o m_cachedToString'[u]
              /\ m_cachedToString[u] # "" =>
                   /\ last'.retStr = "not " \o m_cachedToString[u]
                   /\ last'.describeTrace = <<last'.target>>
      ]_vars

\* a wrapper was described from a stored string that a fresh describe() of
\* the wrapped matcher would no longer produce
C7_Witness ==
    /\ IsDescribeOn("not")
    /\ last.describeTrace = <<last.target>>
    /\ last.retStr = "not " \o m_cachedToString[m_underlyingMatcher[last.target]]
    /\ describe(m_underlyingMatcher[last.target], Now).str
           # m_cachedToString[m_underlyingMatcher[last.target]]

C10_ExtensionHandsOnNoDescription ==
    (Accepted(last) /\ last.overload \in {"append", "prepend"}) =>
        toString(last.target, Now).str = describe(last.target, Now).str

====
